---------------------------- MODULE Spec2Model ----------------------------
(***************************************************************************)
(* Model of app.py of smart-financial-coach: detect_subscriptions(df) and  *)
(* the part of main() that keeps the "marked for cancellation" set.        *)
(*                                                                         *)
(* Representation.                                                         *)
(*   - A description is a sequence of one-character strings, so that       *)
(*     str.split() has something to do: <<"N","F"," ","H","D">> is "NF HD".*)
(*   - A date cell is either the text read from the CSV,                   *)
(*     [t |-> "str", y, m, d] for "y-m-d", or the pandas Timestamp         *)
(*     pd.to_datetime makes of it, [t |-> "ts", days |-> n], n the day of  *)
(*     the year 2023 (all dates of the model lie in 2023).                 *)
(*   - An amount cell is a number of cents, [t |-> "num", cents |-> c], or *)
(*     a text, [t |-> "str", s |-> "abc"].                                 *)
(*   - Currency arithmetic is exact, in cents.  The code computes in       *)
(*     binary floating point; the amounts of Catalogue are chosen so that  *)
(*     no group the code formats has a mean at an exact half cent, and so  *)
(*     that the float comparison with 1.0 agrees with the exact one.       *)
(***************************************************************************)
EXTENDS Integers, Sequences, FiniteSets

VARIABLES
    df,        \* the caller's DataFrame: a sequence of rows
    df0,       \* ghost: the caller's DataFrame as it was loaded
    sortKind,  \* how this build's unstable sort orders rows of equal date
    outs,      \* the outcomes of the successive calls detect_subscriptions(df)
    alt,       \* another DataFrame holding the rows of df0 in another order
    altOut,    \* the outcome of detect_subscriptions(alt), <<>> before the call
    uploaded,  \* main: the file in the uploader widget, <<>> when none
    session,   \* main: st.session_state, the marked set and the checkbox widgets
    shown,     \* main: subscriptions_df of the last script run
    crashed    \* main: the exception that ended the last script run, "" when none

vars == <<df, df0, sortKind, outs, alt, altOut, uploaded, session, shown, crashed>>

detVars == <<df, df0, sortKind, outs, alt, altOut>>
uiVars == <<uploaded, session, shown, crashed>>

---------------------------------------------------------------------------
(* Bounds of the model *)

MaxRows == 4

MaxCalls == 3

---------------------------------------------------------------------------
(* Constants of the program *)

MinInterval == 25

MaxInterval == 35

Tolerance == 100

MonthsPerYear == 12

---------------------------------------------------------------------------
(* Cells *)

StrDate(y, m, d) == [t |-> "str", y |-> y, m |-> m, d |-> d]

Timestamp(n) == [t |-> "ts", days |-> n]

Num(c) == [t |-> "num", cents |-> c]

Text(s) == [t |-> "str", s |-> s]

DaysInMonth == <<31, 28, 31, 30, 31, 30, 31, 31, 30, 31, 30, 31>>

RECURSIVE DaysBefore(_)
DaysBefore(m) == IF m <= 1 THEN 0 ELSE DaysBefore(m - 1) + DaysInMonth[m - 1]

\* pd.to_datetime accepts the cell: a Timestamp, or the text of a calendar date
Parseable(c) ==
    \/ c.t = "ts"
    \/ /\ c.t = "str"
       /\ c.y = 2023
       /\ c.m \in 1..12
       /\ c.d \in 1..DaysInMonth[c.m]

\* variant of ToDatetime: a Timestamp is converted again, as a count of days
ToDatetimeShifted(c) ==
    IF c.t = "ts" THEN Timestamp(c.days + 1)
    ELSE Timestamp(DaysBefore(c.m) + c.d)

\* pd.to_datetime of one parseable cell
ToDatetime(c) ==
    IF c.t = "ts" THEN c
    ELSE Timestamp(DaysBefore(c.m) + c.d)

\* Timestamp.strftime('%Y-%m-%d'), kept as the (y, m, d) of the text
Strftime(ts) ==
    LET m == CHOOSE k \in 1..12 :
                 DaysBefore(k) < ts.days /\ ts.days <= DaysBefore(k) + DaysInMonth[k]
    IN StrDate(2023, m, ts.days - DaysBefore(m))

---------------------------------------------------------------------------
(* str.split() *)

IsSpace(ch) == ch = " "

\* the length of the leading run of non-space characters of s
TokenLen(s) ==
    IF \E i \in 1..Len(s) : IsSpace(s[i])
    THEN (CHOOSE i \in 1..Len(s) :
             IsSpace(s[i]) /\ \A j \in 1..(i - 1) : ~IsSpace(s[j])) - 1
    ELSE Len(s)

RECURSIVE Split(_)
Split(s) ==
    IF s = <<>> THEN <<>>
    ELSE IF IsSpace(Head(s)) THEN Split(Tail(s))
    ELSE LET n == TokenLen(s)
         IN <<SubSeq(s, 1, n)>> \o Split(SubSeq(s, n + 1, Len(s)))

\* row['description'].split()[0] raises IndexError
NoToken(row) == Split(row.description) = <<>>

\* merchant = row['description'].split()[0]
Merchant(row) == Split(row.description)[1]

---------------------------------------------------------------------------
(* Sorting *)

\* row i comes before row j in the sorted frame
Before(s, kind, i, j) ==
    \/ s[i].date.days < s[j].date.days
    \/ /\ s[i].date.days = s[j].date.days
       /\ IF kind = "keep" THEN i < j ELSE j < i

\* the rows of s by ascending date: rank[i] is the place of row i
SortBy(s, kind) ==
    LET rank == [i \in 1..Len(s) |->
                    Cardinality({j \in 1..Len(s) : Before(s, kind, j, i)}) + 1]
    IN [p \in 1..Len(s) |-> s[CHOOSE i \in 1..Len(s) : rank[i] = p]]

\* variant of SortValues: the frame is left in the order it came in
SortValuesNone(s, kind) == s

\* df.sort_values('date'): a new frame; the default kind, quicksort, is not stable
SortValues(s, kind) == SortBy(s, kind)

\* sorted(transactions, key=lambda x: x['date']): stable
Sorted(t) == SortBy(t, "keep")

---------------------------------------------------------------------------
(* Grouping *)

Transaction(row) ==
    [date |-> row.date, amount |-> row.amount,
     full_description |-> row.description, category |-> row.category]

\* the merchant the loop over df.iterrows() computes for each row
Merchants(s) == [i \in 1..Len(s) |-> Merchant(s[i])]

\* variant of FirstSeen: a new key goes to the front
RECURSIVE FirstSeenLast(_, _)
FirstSeenLast(ms, acc) ==
    IF ms = <<>> THEN acc
    ELSE FirstSeenLast(Tail(ms),
             IF \E i \in 1..Len(acc) : acc[i] = Head(ms) THEN acc
             ELSE <<Head(ms)>> \o acc)

\* the keys of merchant_groups in insertion order, ms being the merchants of
\* the rows still to read
RECURSIVE FirstSeen(_, _)
FirstSeen(ms, acc) ==
    IF ms = <<>> THEN acc
    ELSE FirstSeen(Tail(ms),
             IF \E i \in 1..Len(acc) : acc[i] = Head(ms) THEN acc
             ELSE Append(acc, Head(ms)))

RECURSIVE RowsOf(_, _, _, _)
RowsOf(s, ms, k, i) ==
    IF i > Len(s) THEN <<>>
    ELSE (IF ms[i] = k THEN <<Transaction(s[i])>> ELSE <<>>)
             \o RowsOf(s, ms, k, i + 1)

\* merchant_groups[k] after the loop over df.iterrows()
GroupOf(s, ms, k) == RowsOf(s, ms, k, 1)

---------------------------------------------------------------------------
(* One merchant group *)

RECURSIVE SumCents(_)
SumCents(t) == IF t = <<>> THEN 0 ELSE Head(t).amount.cents + SumCents(Tail(t))

Abs(x) == IF x < 0 THEN -x ELSE x

\* f"{x:.2f}" of the amount num/den cents: to the nearest cent, ties to even
Round2(num, den) ==
    LET q == num \div den
        r == num % den
    IN IF 2 * r < den THEN q
       ELSE IF 2 * r > den THEN q + 1
       ELSE IF q % 2 = 0 THEN q ELSE q + 1

\* sum(amounts) raises TypeError
BadAmounts(t) == \E i \in 1..Len(t) : t[i].amount.t # "num"

Intervals(t) == [i \in 1..(Len(t) - 1) |-> t[i + 1].date.days - t[i].date.days]

RECURSIVE SumInts(_)
SumInts(s) == IF s = <<>> THEN 0 ELSE Head(s) + SumInts(Tail(s))

\* all(abs(amt - avg_amount) <= 1.0 for amt in amounts), times len(amounts)
AmountVariance(t) ==
    \A i \in 1..Len(t) :
        Abs(Len(t) * t[i].amount.cents - SumCents(t)) <= Tolerance * Len(t)

\* all(25 <= interval <= 35 for interval in intervals)
IntervalConsistent(t) ==
    \A i \in 1..(Len(t) - 1) :
        MinInterval <= Intervals(t)[i] /\ Intervals(t)[i] <= MaxInterval

\* variant of Subscription: Service and Category of the last row of the group
SubscriptionOfLast(t) ==
    [Service |-> t[Len(t)].full_description,
     MonthlyCost |-> Round2(SumCents(t), Len(t)),
     Frequency |-> SumInts(Intervals(t)) \div (Len(t) - 1),
     Category |-> t[Len(t)].category,
     TimesCharged |-> Len(t),
     LastCharge |-> Strftime(t[Len(t)].date),
     AnnualCost |-> Round2(SumCents(t) * MonthsPerYear, Len(t)),
     cost_numeric |-> [num |-> SumCents(t), den |-> Len(t)]]

\* variant of Subscription: the annual cost is ten times the mean
SubscriptionTenMonths(t) ==
    [Service |-> t[1].full_description,
     MonthlyCost |-> Round2(SumCents(t), Len(t)),
     Frequency |-> SumInts(Intervals(t)) \div (Len(t) - 1),
     Category |-> t[1].category,
     TimesCharged |-> Len(t),
     LastCharge |-> Strftime(t[Len(t)].date),
     AnnualCost |-> Round2(SumCents(t) * 10, Len(t)),
     cost_numeric |-> [num |-> SumCents(t), den |-> Len(t)]]

\* the record appended to subscriptions; t is the sorted group
Subscription(t) ==
    [Service |-> t[1].full_description,
     MonthlyCost |-> Round2(SumCents(t), Len(t)),
     Frequency |-> SumInts(Intervals(t)) \div (Len(t) - 1),
     Category |-> t[1].category,
     TimesCharged |-> Len(t),
     LastCharge |-> Strftime(t[Len(t)].date),
     AnnualCost |-> Round2(SumCents(t) * MonthsPerYear, Len(t)),
     cost_numeric |-> [num |-> SumCents(t), den |-> Len(t)]]

\* one pass of the loop over merchant_groups.items(), for a group whose
\* amounts are numbers: the records it appends
Emitted(transactions) ==
    IF Len(transactions) < 2 THEN <<>>
    ELSE LET t == Sorted(transactions)
         IN IF AmountVariance(t) /\ IntervalConsistent(t)
            THEN <<Subscription(t)>>
            ELSE <<>>

---------------------------------------------------------------------------
(* detect_subscriptions *)

Ok(subs) == [status |-> "ok", exc |-> "", subs |-> subs]

Raised(exc) == [status |-> "error", exc |-> exc, subs |-> <<>>]

RECURSIVE EmitAll(_)
EmitAll(groups) ==
    IF groups = <<>> THEN <<>>
    ELSE Emitted(Head(groups)) \o EmitAll(Tail(groups))

\* the frame after df['date'] = pd.to_datetime(df['date'])
Converted(frame) ==
    [i \in 1..Len(frame) |-> [frame[i] EXCEPT !.date = ToDatetime(@)]]

\* detect_subscriptions(frame): what the call returns or raises, and the
\* caller's frame after it
Detect(frame, kind) ==
    IF \E i \in 1..Len(frame) : ~Parseable(frame[i].date)
    THEN [out |-> Raised("ValueError"), df |-> frame]
    ELSE LET conv == Converted(frame)
             s == SortValues(conv, kind)
         IN IF \E i \in 1..Len(s) : NoToken(s[i])
            THEN [out |-> Raised("IndexError"), df |-> conv]
            ELSE LET ms == Merchants(s)
                     keys == FirstSeen(ms, <<>>)
                     groups == [j \in 1..Len(keys) |-> GroupOf(s, ms, keys[j])]
                 IN IF \E j \in 1..Len(groups) :
                          Len(groups[j]) >= 2 /\ BadAmounts(groups[j])
                    THEN [out |-> Raised("TypeError"), df |-> conv]
                    ELSE [out |-> Ok(EmitAll(groups)), df |-> conv]

---------------------------------------------------------------------------
(* The transactions the model draws its frames from *)

Row(date, description, amount, category) ==
    [date |-> date, description |-> description,
     amount |-> amount, category |-> category]

NFHD == <<"N", "F", " ", "H", "D">>

NFSD == <<"N", "F", " ", "S", "D">>

nfHD == <<"n", "f", " ", "H", "D">>

SP == <<"S", "P">>

Blank == <<" ">>

Catalogue ==
    { Row(StrDate(2023, 1, 1), NFHD, Num(1599), "Entertainment"),
      Row(StrDate(2023, 1, 26), NFSD, Num(1601), "Streaming"),
      Row(StrDate(2023, 2, 5), NFHD, Num(1799), "Entertainment"),
      Row(StrDate(2023, 3, 2), NFSD, Num(1601), "Streaming"),
      Row(StrDate(2023, 1, 1), SP, Num(999), "Music"),
      Row(StrDate(2023, 1, 26), SP, Num(999), "Music"),
      Row(StrDate(2023, 1, 1), nfHD, Num(1599), "Entertainment"),
      Row(StrDate(2023, 1, 26), Blank, Num(1599), "Other"),
      Row(StrDate(2023, 3, 2), SP, Text("abc"), "Music") }

\* the frames read from a CSV: at most MaxRows rows of Catalogue, none twice
Frames ==
    { f \in UNION { [1..n -> Catalogue] : n \in 0..MaxRows } :
        \A i, j \in 1..Len(f) : f[i] = f[j] => i = j }

SortKinds == {"keep", "reverse"}

\* frame with rows i and i + 1 exchanged
Swapped(frame, i) ==
    [p \in 1..Len(frame) |->
        IF p = i THEN frame[i + 1] ELSE IF p = i + 1 THEN frame[i] ELSE frame[p]]

---------------------------------------------------------------------------
(* The detector called by a caller that holds a frame *)

\* st.session_state of a new session: no 'marked_for_cancellation' key, no
\* checkbox widget.  wkeys are the idx whose widget "cancel_idx" has a state,
\* won those whose state is checked.
NoSession == [has |-> FALSE, marked |-> {}, wkeys |-> {}, won |-> {}]

NothingShown == [ran |-> FALSE, subs |-> <<>>]

Init ==
    /\ df \in Frames
    /\ df0 = df
    /\ sortKind \in SortKinds
    /\ outs = <<>>
    /\ alt = <<>>
    /\ altOut = <<>>
    /\ uploaded = <<>>
    /\ session = NoSession
    /\ shown = NothingShown
    /\ crashed = ""

\* subscriptions_df = detect_subscriptions(df), once more on the same frame
Call ==
    /\ Len(outs) < MaxCalls
    /\ LET r == Detect(df, sortKind)
       IN /\ df' = r.df
          /\ outs' = Append(outs, r.out)
    /\ UNCHANGED <<df0, sortKind, alt, altOut, uiVars>>

Next == Call

\* detect_subscriptions on a second frame: the loaded rows, two neighbours
\* exchanged (the exchanges of neighbours generate every order)
CallReordered(i) ==
    /\ Len(outs) = 1
    /\ altOut = <<>>
    /\ i \in 1..(Len(df0) - 1)
    /\ alt' = Swapped(df0, i)
    /\ altOut' = <<Detect(alt', sortKind).out>>
    /\ UNCHANGED <<df, df0, sortKind, outs, uiVars>>

NextPerm ==
    \/ outs = <<>> /\ Call
    \/ \E i \in 1..(MaxRows - 1) : CallReordered(i)

Spec == Init /\ [][Next]_vars

SpecPerm == Init /\ [][NextPerm]_vars

---------------------------------------------------------------------------
(* main(): one run of the script per user interaction *)

GY == <<"G", "Y">>

File3 ==
    << Row(StrDate(2023, 1, 1), NFHD, Num(1599), "Entertainment"),
       Row(StrDate(2023, 1, 1), SP, Num(999), "Music"),
       Row(StrDate(2023, 1, 5), GY, Num(2500), "Health"),
       Row(StrDate(2023, 1, 26), NFSD, Num(1601), "Streaming"),
       Row(StrDate(2023, 1, 26), SP, Num(999), "Music"),
       Row(StrDate(2023, 2, 5), GY, Num(2500), "Health") >>

File2 == SubSeq(File3, 2, 6)

File1 == SubSeq(File3, 3, 6)

File0 == SubSeq(File3, 1, 3)

FileBlank == <<Row(StrDate(2023, 1, 26), Blank, Num(1599), "Other")>>

FileBadDate == <<Row(StrDate(2023, 2, 30), SP, Num(999), "Music")>>

\* the CSV files of the session: three, two, one and no subscription, and
\* two on which detection raises
Files == {File3, File2, File1, File0, FileBlank, FileBadDate}

\* transactions.csv, the demo data
DemoFile == File2

\* the loop over subscriptions_df.iterrows(): st.checkbox returns the widget's
\* state when it has one and value= otherwise; the marked set follows it
IsChecked(sess, marked, idx) ==
    IF idx \in sess.wkeys THEN idx \in sess.won ELSE idx \in marked

MarkedAfterLoop(sess, marked, n) ==
    (marked \ {idx \in 0..(n - 1) : ~IsChecked(sess, marked, idx)})
        \cup {idx \in 0..(n - 1) : IsChecked(sess, marked, idx)}

\* one run of main() from line 130 on: use_demo, the uploader's file
\* (<<>> when none), the session before the run
RunScript(use_demo, file, sess, kind) ==
    IF ~use_demo /\ file = <<>>
    THEN [session |-> [sess EXCEPT !.wkeys = {}, !.won = {}],
          shown |-> NothingShown, crashed |-> ""]
    ELSE LET frame == IF use_demo THEN DemoFile ELSE file[1]
             out == Detect(frame, kind).out
             n == Len(out.subs)
         IN IF out.status = "error"
            THEN [session |-> sess, shown |-> NothingShown, crashed |-> out.exc]
            ELSE IF n = 0
            THEN [session |-> [sess EXCEPT !.wkeys = {}, !.won = {}],
                  shown |-> [ran |-> TRUE, subs |-> out.subs], crashed |-> ""]
            ELSE LET marked0 == IF sess.has THEN sess.marked ELSE {}
                     marked1 == MarkedAfterLoop(sess, marked0, n)
                 IN [session |->
                        [has |-> TRUE, marked |-> marked1, wkeys |-> 0..(n - 1),
                         won |-> {idx \in 0..(n - 1) : IsChecked(sess, marked0, idx)}],
                     shown |-> [ran |-> TRUE, subs |-> out.subs],
                     \* subscriptions_df.iloc[list(marked)]
                     crashed |-> IF \E idx \in marked1 : idx >= n
                                 THEN "iloc" ELSE ""]

InitUI ==
    /\ df = <<>>
    /\ df0 = <<>>
    /\ sortKind \in SortKinds
    /\ outs = <<>>
    /\ alt = <<>>
    /\ altOut = <<>>
    /\ uploaded = <<>>
    /\ session = NoSession
    /\ shown = NothingShown
    /\ crashed = ""

Rerun(use_demo, file, sess) ==
    LET r == RunScript(use_demo, file, sess, sortKind)
    IN /\ uploaded' = file
       /\ session' = r.session
       /\ shown' = r.shown
       /\ crashed' = r.crashed
       /\ UNCHANGED detVars

\* the user clicks "Use Demo Data"
ClickDemo == Rerun(TRUE, uploaded, session)

\* the user puts a file into the uploader
Upload(f) == Rerun(FALSE, <<f>>, session)

\* the user removes the file from the uploader
RemoveFile ==
    /\ uploaded # <<>>
    /\ Rerun(FALSE, <<>>, session)

\* the user ticks or unticks the checkbox of row idx
Toggle(idx) ==
    /\ idx \in session.wkeys
    /\ Rerun(FALSE, uploaded,
             [session EXCEPT !.won = IF idx \in @ THEN @ \ {idx} ELSE @ \cup {idx}])

NextUI ==
    \/ ClickDemo
    \/ \E f \in Files : Upload(f)
    \/ RemoveFile
    \/ \E idx \in session.wkeys : Toggle(idx)

SpecUI == InitUI /\ [][NextUI]_vars

---------------------------------------------------------------------------
(* The loaded frame as the specification describes it: merchant groups are  *)
(* sets of rows of df0, not the lists the code builds.                      *)

\* the merchant key of a description; the empty key when it has no token
KeyOf(desc) ==
    LET words == Split(desc)
    IN IF words = <<>> THEN <<>> ELSE words[1]

WellFormed ==
    \A i \in DOMAIN df0 : Parseable(df0[i].date) /\ df0[i].amount.t = "num"

Day(i) == DaysBefore(df0[i].date.m) + df0[i].date.d

Keys0 == {KeyOf(df0[i].description) : i \in DOMAIN df0}

Group0(k) == {i \in DOMAIN df0 : KeyOf(df0[i].description) = k}

MinOf(S) == CHOOSE x \in S : \A y \in S : x <= y

\* the rows of G that follow row i in date order
After(G, i) == {j \in G \ {i} : Day(j) > Day(i) \/ (Day(j) = Day(i) /\ j > i)}

Regular(G) ==
    \A i \in G :
        After(G, i) # {} =>
            LET gap == MinOf({Day(j) - Day(i) : j \in After(G, i)})
            IN 25 <= gap /\ gap <= 35

RECURSIVE CentsOf(_)
CentsOf(G) ==
    IF G = {} THEN 0
    ELSE LET i == CHOOSE i \in G : TRUE
         IN df0[i].amount.cents + CentsOf(G \ {i})

Steady(G) ==
    \A i \in G :
        Abs(Cardinality(G) * df0[i].amount.cents - CentsOf(G)) <= 100 * Cardinality(G)

Qualifies(k) ==
    /\ Cardinality(Group0(k)) >= 2
    /\ Regular(Group0(k))
    /\ Steady(Group0(k))

\* the positions of the records of out that come from the group of key k
RecordsOf(out, k) == {p \in DOMAIN out.subs : KeyOf(out.subs[p].Service) = k}

Earliest(G) == CHOOSE i \in G : \A j \in G : Day(i) <= Day(j)

Latest(G) == CHOOSE i \in G : \A j \in G : Day(j) <= Day(i)

Range(s) == {s[i] : i \in DOMAIN s}

\* every record any call returned
Records == UNION {Range(outs[c].subs) : c \in DOMAIN outs}

SourceOf(r) == Group0(KeyOf(r.Service))

---------------------------------------------------------------------------
(* Claims *)

\* C1: on a frame with well-formed dates and amounts the call emits exactly
\* one record for each merchant group that has at least 2 rows, all
\* consecutive intervals in [25, 35] and all amounts within 1.00 of the mean,
\* and no record for any other group.
C1_OneRecordPerQualifyingGroup ==
    (Len(outs) >= 1 /\ WellFormed) =>
        /\ \A k \in Keys0 :
              Cardinality(RecordsOf(outs[1], k)) = IF Qualifies(k) THEN 1 ELSE 0
        /\ \A p \in DOMAIN outs[1].subs : KeyOf(outs[1].subs[p].Service) \in Keys0

\* C1, on the frames in which every description has a token: the same statement
C1_WhenEveryRowHasAToken ==
    (\A i \in DOMAIN df0 : Split(df0[i].description) # <<>>) =>
        C1_OneRecordPerQualifyingGroup

DistinctStarts ==
    \A p, q \in DOMAIN outs[1].subs :
        p # q =>
            Day(Earliest(SourceOf(outs[1].subs[p])))
                # Day(Earliest(SourceOf(outs[1].subs[q])))

C3_MalformedAmountFails ==
    (Len(outs) >= 1 /\ \E i \in DOMAIN df0 : df0[i].amount.t # "num") =>
        outs[1].status = "error"

\* C4: the call never changes the caller's frame: same rows, same order, same
\* values and representations, the date column included.
C4_FrameUntouched ==
    df = df0

\* C5: a row with a blank description does not make detection fail: the call
\* on well-formed dates and amounts succeeds and treats the rows of the empty
\* key as one more group.
C5_BlankDescriptionTolerated ==
    (/\ Len(outs) >= 1
     /\ WellFormed
     /\ \E i \in DOMAIN df0 : KeyOf(df0[i].description) = <<>>) =>
        /\ outs[1].status = "ok"
        /\ Cardinality(RecordsOf(outs[1], <<>>)) = IF Qualifies(<<>>) THEN 1 ELSE 0

\* C6 as claimed: in every record the 'Annual Cost' shown is 12 times the
\* 'Monthly Cost' shown.
C6_AnnualIsTwelveMonthly ==
    \A r \in Records : r.AnnualCost = 12 * r.MonthlyCost

\* C6 as amended: in every record the 'Annual Cost' shown is 12 times the
\* unrounded mean of the group, to the nearest cent; it is 12 times the
\* 'Monthly Cost' shown when the mean is a whole number of cents.
C6_AnnualOfUnroundedMean ==
    \A r \in Records :
        LET G == SourceOf(r)
            n == Cardinality(G)
            total == CentsOf(G)
        IN /\ 2 * Abs(n * r.AnnualCost - 12 * total) <= n
           /\ total % n = 0 => r.AnnualCost = 12 * r.MonthlyCost

C6_Witness ==
    \E r \in Records :
        /\ CentsOf(SourceOf(r)) % Cardinality(SourceOf(r)) # 0
        /\ r.AnnualCost # 12 * r.MonthlyCost

\* C7: successive calls on the same frame object return the same outcome, the
\* second and every later call seeing the frame as the call before left it.
C7_RepeatedCallsAgree ==
    \A c \in DOMAIN outs : outs[c] = outs[1]

C7_Witness ==
    /\ Len(outs) >= 3
    /\ outs[1].subs # <<>>
    /\ df # df0

\* C8: every record's Service and Category are the description and category
\* of the earliest row of its group, Times Charged is the size of the group,
\* Last Charge is the date of its latest row, and the frequency is the floor
\* of the mean interval, which lies in [25, 35].
C8_FieldsFromGroup ==
    \A r \in Records :
        LET G == SourceOf(r)
            first == df0[Earliest(G)]
            last == df0[Latest(G)]
            span == Day(Latest(G)) - Day(Earliest(G))
        IN /\ r.Service = first.description
           /\ r.Category = first.category
           /\ r.TimesCharged = Cardinality(G)
           /\ r.LastCharge = last.date
           /\ r.Frequency = span \div (Cardinality(G) - 1)
           /\ 25 <= r.Frequency /\ r.Frequency <= 35

C8_Witness ==
    \E r \in Records :
        /\ r.TimesCharged = 3
        /\ r.Service # df0[Latest(SourceOf(r))].description
        /\ r.Category # df0[Latest(SourceOf(r))].category

\* the date-ascending stream of the rows of the loaded frame
Stream == SortValues(Converted(df0), sortKind)

\* the place of the first row of key k in the stream
FirstPlace(k) == MinOf({i \in DOMAIN Stream : KeyOf(Stream[i].description) = k})

\* C9: the records come in the order in which their merchant keys are first
\* met in the date-ascending stream of rows, whatever their cost or name: of
\* two records the one whose key is met first comes first (the places of two
\* keys differ, so this is "exactly when").
C9_FirstEncounterOrder ==
    \A c \in DOMAIN outs :
        \A p, q \in DOMAIN outs[c].subs :
            p < q =>
                LET kp == KeyOf(outs[c].subs[p].Service)
                    kq == KeyOf(outs[c].subs[q].Service)
                IN /\ FirstPlace(kp) < FirstPlace(kq)
                   /\ Day(Earliest(Group0(kp))) <= Day(Earliest(Group0(kq)))

C9_Witness ==
    /\ Len(outs) >= 1
    /\ Len(outs[1].subs) = 2
    /\ outs[1].subs[1].MonthlyCost < outs[1].subs[2].MonthlyCost
    /\ Day(Earliest(SourceOf(outs[1].subs[1])))
           < Day(Earliest(SourceOf(outs[1].subs[2])))

\* C10: across the reruns of a session every index in marked_for_cancellation
\* is a row position of the list detected in the current run, and the savings
\* computation never indexes out of range.
C10_MarkedIndicesValid ==
    /\ shown.ran => session.marked \subseteq 0..(Len(shown.subs) - 1)
    /\ crashed # "iloc"

=============================================================================
